---- MODULE Spec2Model ----
(***************************************************************************)
(* A model of the Amazon Music client library (Jaffa/amazon-music).        *)
(*                                                                         *)
(* Two generations of the client live side by side in the repository: the  *)
(* package src/amazonmusic/ ("package") and the older single module        *)
(* src/amazonmusic.py ("legacy").  Where they differ the model carries     *)
(* both and a variable says which one runs.                                *)
(*                                                                         *)
(* Specifications:                                                         *)
(*   SpecBoot   the session bootstrap, AmazonMusic.__init__                *)
(*   SpecLife   bootstraps and calls of processes sharing a cookie file    *)
(*   SpecRead   the paginated readers and Station.tracks                   *)
(*   SpecReads  the same with several reads open at a time                 *)
(*   SpecTrack  Track.stream_url                                           *)
(*   SpecView   the constructors of Track and Album                        *)
(*   SpecConfig the scan of a response body for the configuration          *)
(*   SpecAlbum  Album.tracks                                               *)
(***************************************************************************)
EXTENDS Integers, Sequences, FiniteSets, TLC

VARIABLES
    impl,      \* which AmazonMusic runs: "package" or "legacy"
    pc,        \* position of __init__: "start", "loop", "done", "raised"
    credentials, \* the credentials argument of __init__
    r,         \* the response object r held by __init__
    c,         \* self.__c, the credentials argument or what replaced it
    cookies,   \* self.session.cookies: the marker cookie of the jar, or None
    net,       \* requests, prompts, provider calls and jar saves, in order
    err,       \* the exception __init__ raised, or None
    session,   \* the session fields stored by __init__, or None
    first,     \* the response to the initial GET (history), or None
    file,      \* the cookie file on disk: its marker cookie and permissions
    run,       \* the number of the process that runs the client
    api,       \* the events of the most recent invocation of call, in order
    reader,    \* the collection that is read: "albums", "artists", "tracks"
               \* (properties of AmazonMusic) or "station" (Station.tracks)
    pages,     \* the pages the service holds for that collection
    gen,       \* the generator objects made by reading the property
    pageToken, \* Station._pageToken
    track,     \* a Track: its memoized _url and the lookups it has sent
    accesses,  \* the accesses of Track.stream_url so far, in order
    cls,       \* the view class that is constructed, with its module
    json,      \* the JSON document handed to its __init__
    view,      \* the object __init__ left, or the KeyError it raised
    html,      \* the lines of a response body handed to the configuration scan
    app_config, \* what the scan of html left in app_config
    album      \* an Album, the service's document for it, the lookups it
               \* has sent and what the accesses of Album.tracks returned

bootVars == <<impl, pc, credentials, r, c, cookies, net, err, session, first,
              file, run, api>>
readVars == <<reader, pages, gen, pageToken>>
trackVars == <<track, accesses>>
viewVars == <<cls, json, view>>
configVars == <<html, app_config>>
albumVars == <<album>>

vars == <<bootVars, readVars, trackVars, viewVars, configVars, albumVars>>

\* the variables a bootstrap leaves alone, and those a read leaves alone
notBoot == <<readVars, trackVars, viewVars, configVars, albumVars>>
notRead == <<bootVars, trackVars, viewVars, configVars, albumVars>>
notTrack == <<bootVars, readVars, viewVars, configVars, albumVars>>
notView == <<bootVars, readVars, trackVars, configVars, albumVars>>
notConfig == <<bootVars, readVars, trackVars, viewVars, albumVars>>
notAlbum == <<bootVars, readVars, trackVars, viewVars, configVars>>

None == "None"

(***************************************************************************)
(* Bounds                                                                  *)
(***************************************************************************)
\* most network exchanges (GET or POST) of one bootstrap
MaxExchanges == 3

(***************************************************************************)
(* Constants of src/amazonmusic/__init__.py and src/amazonmusic.py         *)
(***************************************************************************)
AMAZON_MUSIC == "https://music.amazon.com"
AMAZON_MFA == "/ap/mfa"
AMAZON_FORCE_SIGNIN == "/gp/dmusic/cloudplayer/forceSignIn"
STORED_URL == "https://music.amazon.co.uk"

(***************************************************************************)
(* Response bodies.  A body is a sequence of lines, a line a sequence of   *)
(* characters.  The characters the extraction tells apart are kept apart:  *)
(*   "{" "}"  braces          ";"  the statement terminator                *)
(*   "M"      the marker 'amznMusic.appConfig = ' (it holds no brace and   *)
(*            no semicolon, so it is carried as one character)             *)
(*   "k0"     the member "isRecognizedCustomer":0                          *)
(*   "k1"     the member "isRecognizedCustomer":1                          *)
(*   "x"      any other character                                          *)
(***************************************************************************)
Chars == {"x", "{", "}", ";", "M", "k0", "k1"}

\* a scan that leaves the statement terminator on the line
StripTerminator_keep(line) == line

\* re.sub(r';$', '', line)
StripTerminator(line) ==
    IF Len(line) > 0 /\ line[Len(line)] = ";"
    THEN SubSeq(line, 1, Len(line) - 1)
    ELSE line

\* re.sub(r'^[^{]*', '', s)
RECURSIVE StripLeading(_)
StripLeading(s) ==
    IF s = <<>> THEN <<>>
    ELSE IF s[1] = "{" THEN s
    ELSE StripLeading(Tail(s))

\* nesting depth after each character of s, starting from depth d;
\* -1 once the text can no longer be a JSON object
RECURSIVE Depth(_, _, _)
Depth(s, i, d) ==
    IF i > Len(s) THEN d
    ELSE IF s[i] = "{" THEN Depth(s, i + 1, d + 1)
    ELSE IF s[i] = "}" THEN
        (IF d = 1 /\ i < Len(s) THEN -1 ELSE Depth(s, i + 1, d - 1))
    ELSE IF s[i] \in {"k0", "k1"} /\ d >= 1 THEN Depth(s, i + 1, d)
    ELSE -1

\* json.loads(s) succeeds on an object literal and on nothing else here
IsObject(s) == Len(s) >= 2 /\ s[1] = "{" /\ Depth(s, 1, 0) = 0

\* json.loads
JsonLoads(s) ==
    IF IsObject(s) THEN [ok |-> TRUE, obj |-> s]
    ELSE [ok |-> FALSE, obj |-> <<>>]

\* json.loads(re.sub(r'^[^{]*', '', re.sub(r';$', '', line)))
ExtractConfig(line) == JsonLoads(StripLeading(StripTerminator(line)))

\* 'amznMusic.appConfig = ' in line
HasMarker(line) == \E i \in 1..Len(line) : line[i] = "M"

\* index of the first line of body that holds the marker, 0 if none
FirstMarkerLine(body) ==
    IF \E i \in 1..Len(body) : HasMarker(body[i])
    THEN CHOOSE i \in 1..Len(body) :
            /\ HasMarker(body[i])
            /\ \A j \in 1..(i - 1) : ~HasMarker(body[j])
    ELSE 0

\* the for loop over r.iter_lines(): None, a parsed object, or a parse error
AppConfigOf(body) ==
    LET i == FirstMarkerLine(body) IN
    IF i = 0 THEN [found |-> FALSE, ok |-> TRUE, obj |-> <<>>]
    ELSE [found |-> TRUE,
          ok |-> ExtractConfig(body[i]).ok,
          obj |-> ExtractConfig(body[i]).obj]

\* app_config['isRecognizedCustomer']: the last member of that name at the
\* top level of the object, None when the object has none
RECURSIVE Recognized(_, _, _, _)
Recognized(obj, i, d, acc) ==
    IF i > Len(obj) THEN acc
    ELSE IF obj[i] = "{" THEN Recognized(obj, i + 1, d + 1, acc)
    ELSE IF obj[i] = "}" THEN Recognized(obj, i + 1, d - 1, acc)
    ELSE IF d = 1 THEN Recognized(obj, i + 1, d, obj[i])
    ELSE Recognized(obj, i + 1, d, acc)

\* 'isRecognizedCustomer' in app_config
HasRecognizedFlag(obj) == Recognized(obj, 1, 0, None) # None

IsRecognizedCustomer(obj) == IF Recognized(obj, 1, 0, None) = "k0" THEN 0 ELSE 1


(***************************************************************************)
(* The service's answers to the bootstrap.                                 *)
(*   body     the lines of r.content                                       *)
(*   signin   r.history holds a 302 whose Location contains AMAZON_SIGNIN  *)
(*   mfa      r.history[-1] is a redirect whose Location contains          *)
(*            AMAZON_MFA                                                   *)
(*   captcha  r.content holds an 'audio#audio-captcha source' element      *)
(*   hidden   names of the hidden inputs of the page's form; a sign-in or  *)
(*            second-factor page carries a form                            *)
(***************************************************************************)
BodyRecognized == << <<"x">>, <<"x", "M", "{", "k1", "}", ";">> >>
BodyRecognized2 == << <<"M", "{", "k1", "{", "}", "}", ";">> >>
BodyUnrecognized == << <<"M", "{", "k0", "}", ";">> >>
BodyNoMarker == << <<"x">>, <<"{", "k1", "}", ";">> >>
BodyBadJson == << <<"M", "x">> >>
BodyNoFlag == << <<"M", "{", "}", ";">> >>

BootBodies == {BodyRecognized, BodyRecognized2, BodyUnrecognized,
               BodyNoMarker, BodyBadJson, BodyNoFlag}

HiddenSets == {{"appActionToken"}, {"appActionToken", "email"}}

\* what session.get can return
GetResponses ==
    [body : BootBodies, signin : BOOLEAN, mfa : {FALSE}, captcha : {FALSE},
     hidden : HiddenSets]

\* what session.post can return: the page the sign-in leads to, or a captcha
\* form or a second-factor form, neither of which holds the configuration
PostResponses ==
    [body : BootBodies, signin : BOOLEAN, mfa : {FALSE}, captcha : {FALSE},
     hidden : HiddenSets]
    \cup
    { resp \in [body : {BodyNoMarker}, signin : BOOLEAN, mfa : BOOLEAN,
                captcha : BOOLEAN, hidden : HiddenSets] :
        resp.mfa # resp.captcha }

NoResponse ==
    [body |-> <<>>, signin |-> FALSE, mfa |-> FALSE, captcha |-> FALSE,
     hidden |-> {}]

(***************************************************************************)
(* The credentials argument: a two-element list, another list, a tuple,    *)
(* None, or a function returning one of these.                             *)
(***************************************************************************)
PAIR == <<"identifier", "secret">>

Value(kind, val) == [kind |-> kind, val |-> val, retkind |-> None, retval |-> <<>>]
Function(kind, val) == [kind |-> "function", val |-> <<>>, retkind |-> kind, retval |-> val]

CredentialArgs ==
    { Value("NoneType", <<>>), Value("list", PAIR), Value("list", <<"identifier">>),
      Value("tuple", PAIR),
      Function("list", PAIR), Function("list", <<"identifier">>),
      Function("NoneType", <<>>) }

\* isinstance(self.__c, types.FunctionType): self.__c = self.__c()
Resolve(cr) == IF cr.kind = "function" THEN Value(cr.retkind, cr.retval) ELSE cr

\* isinstance(self.__c, list) and len(self.__c) == 2
ValidCredentials(cr) == cr.kind = "list" /\ Len(cr.val) = 2

\* the loop test without the history: every response asks for sign-in
SignInRedirect_always(resp) == TRUE

\* r.history and any(h.status_code == 302 and AMAZON_SIGNIN in
\* h.headers['Location'] for h in r.history)
SignInRedirect(resp) == resp.signin

\* r.history and r.history[-1].is_redirect and AMAZON_MFA in
\* r.history[-1].headers['Location']
SecondFactorRedirect(resp) == resp.mfa

(***************************************************************************)
(* Events of net                                                           *)
(***************************************************************************)
NoHeaders == <<>>
Event(op, url, data, form) ==
    [op |-> op, url |-> url, data |-> data, form |-> form, headers |-> NoHeaders]
Get(url) == Event("GET", url, <<>>, {})
Post(data) == Event("POST", "form.action", data, {})
Save == Event("save", "", <<>>, {})
Chmod == Event("chmod", "", <<>>, {})
Provider == Event("provider", "", <<>>, {})
Prompt == Event("prompt", "", <<>>, {})
\* soup.select('audio#audio-captcha source')
CaptchaTags(resp) == IF resp.captcha THEN <<"audio#audio-captcha source">> ELSE <<>>

\* the answer to a POST: the Location of the redirect that led to it, the
\* captcha tags of the page and the hidden inputs of the form it carries
Reply(resp) ==
    Event("reply", IF SecondFactorRedirect(resp) THEN AMAZON_MFA ELSE "",
          CaptchaTags(resp), resp.hidden)

RECURSIVE Count(_, _)
Count(s, ops) ==
    IF s = <<>> THEN 0
    ELSE (IF s[1].op \in ops THEN 1 ELSE 0) + Count(Tail(s), ops)

Exchanges(s) == Count(s, {"GET", "POST"})

\* dict.update: the entries of g replace those of f
Update(f, g) ==
    [k \in DOMAIN f \cup DOMAIN g |-> IF k \in DOMAIN g THEN g[k] ELSE f[k]]

\* the hidden inputs of soup.form, name -> value
HiddenFields(resp) == [k \in resp.hidden |-> "hidden value"]

\* _post of the package: hidden fields first, then the extra data
PackageQuery(resp, data) == Update(HiddenFields(resp), data)

\* the legacy _authenticate: the data first, then the hidden fields
LegacyQuery(resp, data) == Update(data, HiddenFields(resp))

FormQuery(i, resp, data) ==
    IF i = "package" THEN PackageQuery(resp, data) ELSE LegacyQuery(resp, data)

Credentials(cr) ==
    [k \in {"email", "password"} |-> IF k = "email" THEN cr.val[1] ELSE cr.val[2]]

OtpCode == [k \in {"otpCode"} |-> "one-time code"]

\* app_config[key], a value that differs from one configuration to another
Lookup(cfg, key) == <<key, cfg>>

\* app_config['realm']: prefix and rest
Realm(cfg) == IF Len(cfg) = 3 THEN <<"EU", "Amazon">> ELSE <<"IN", "Amazon">>

REGION_MAP ==
    [realm \in {<<"US", "Amazon">>, <<"EU", "Amazon">>, <<"FE", "Amazon">>} |->
        IF realm[1] = "US" THEN "NA" ELSE realm[1]]

\* REGION_MAP.get(app_config['realm'], app_config['realm'][:2])
Region(cfg) ==
    IF Realm(cfg) \in DOMAIN REGION_MAP THEN REGION_MAP[Realm(cfg)] ELSE Realm(cfg)[1]

\* 'https://' + app_config['serverInfo']['returnUrlServer']
ReturnUrl(cfg) == IF Len(cfg) = 3 THEN STORED_URL ELSE "https://music.amazon.de"

\* the session fields __init__ stores, and the configuration they are from
SessionOf(cfg) ==
    [config |-> cfg,
     deviceId |-> Lookup(cfg, "deviceId"),
     csrfToken |-> Lookup(cfg, "csrf_token"),
     csrfTs |-> Lookup(cfg, "csrf_ts"),
     csrfRnd |-> Lookup(cfg, "csrf_rnd"),
     customerId |-> Lookup(cfg, "customerId"),
     deviceType |-> Lookup(cfg, "deviceType"),
     territory |-> Lookup(cfg, "musicTerritory"),
     locale |-> Lookup(cfg, "locale"),
     region |-> Region(cfg),
     url |-> ReturnUrl(cfg)]

NoSession ==
    [config |-> <<>>, deviceId |-> <<>>, csrfToken |-> <<>>, csrfTs |-> <<>>,
     csrfRnd |-> <<>>, customerId |-> <<>>, deviceType |-> <<>>,
     territory |-> <<>>, locale |-> <<>>, region |-> None, url |-> None]

(***************************************************************************)
(* The cookie file.  Of the jar only the marker cookie is kept.            *)
(***************************************************************************)
\* 0o600
OWNER_ONLY == 384
\* the permissions open() gives a new file under the usual umask, 0o644
UMASK_DEFAULT == 420

\* no file at the cookie path
\*   path    "cookies": the path given as the cookies argument; without that
\*           argument "dat" or "moz.dat", the default file that is there,
\*           and "default" when neither is
\*   format  the format of the content: "LWP" or "Mozilla"
NoFileAt(path) ==
    [exists |-> FALSE, marker |-> None, mode |-> 0, format |-> None, path |-> path]

NoFile == NoFileAt("default")

\* a file an earlier bootstrap has left: the legacy module writes LWP files,
\* at the default path with the extension dat; the package writes Mozilla
\* files, at the default path with the extension moz.dat
FileOf(path, format, marker, mode) ==
    [exists |-> TRUE, marker |-> marker, mode |-> mode, format |-> format,
     path |-> path]

\* the cookie files a bootstrap is started on: none; a file at the given
\* path that the legacy module has left; one that the package has left
BootFiles ==
    { NoFileAt("default"),
      FileOf("cookies", "LWP", STORED_URL, UMASK_DEFAULT),
      FileOf("cookies", "Mozilla", STORED_URL, OWNER_ONLY) }

\* the cookie files the first of several processes is started on: none at
\* the default paths, none at the given path, or one at the given path that
\* others may read and that holds no marker cookie
LifeFiles ==
    { NoFileAt("default"), NoFileAt("cookies"),
      FileOf("cookies", "LWP", None, UMASK_DEFAULT) }

\* the class of self.session.cookies: the legacy module takes LWPCookieJar;
\* the package takes LWPCookieJar when there is a file at _cookie_path('dat'),
\* which is the cookies argument when that is given, and MozillaCookieJar at
\* _cookie_path('moz.dat') otherwise
JarClass(i, f) ==
    IF i = "legacy" THEN "LWP"
    ELSE IF f.exists /\ f.path \in {"cookies", "dat"} THEN "LWP" ELSE "Mozilla"

\* the path of the jar's file
JarPath(i, f) ==
    IF f.path # "default" THEN f.path
    ELSE IF i = "legacy" THEN "dat" ELSE "moz.dat"

\* self.session.cookies.load() reads the file: a file in the other format
\* makes it raise LoadError
LoadOK(i, f) == f.exists => f.format = JarClass(i, f)

\* a bootstrap that does not look for the marker cookie
Loaded_none(f) == None

\* self.session.cookies.load() when os.path.isfile(cookie_path)
Loaded(f) == IF f.exists THEN f.marker ELSE None

\* a save that makes the file anew
Saved_recreate(f, jar) ==
    [exists |-> TRUE, marker |-> jar, mode |-> UMASK_DEFAULT,
     format |-> IF f.exists THEN f.format ELSE JarClass(impl, f),
     path |-> JarPath(impl, f)]

\* self.session.cookies.save(): the jar replaces the content, in the format
\* of the jar's class; a file that is there keeps its permissions, a new one
\* gets those of open()
Saved(f, jar) ==
    [exists |-> TRUE, marker |-> jar,
     mode |-> IF f.exists THEN f.mode ELSE UMASK_DEFAULT,
     format |-> IF f.exists THEN f.format ELSE JarClass(impl, f),
     path |-> JarPath(impl, f)]

\* os.chmod(cookie_path, 0o600)
Chmodded(f) == [f EXCEPT !.mode = OWNER_ONLY]

NoError == [type |-> None, body |-> <<>>]
Raise(type, body) == [type |-> type, body |-> body]

\* no collection is being read
NoRead ==
    /\ reader = None
    /\ pages = <<>>
    /\ gen = <<>>
    /\ pageToken = None

\* no Track is in use
NoTrack ==
    /\ track = [url |-> None, calls |-> 0]
    /\ accesses = <<>>

\* no view object is being constructed
NoView ==
    /\ cls = None
    /\ json = <<>>
    /\ view = <<>>

\* no body is being scanned on its own
NoScan ==
    /\ html = <<>>
    /\ app_config = <<>>

\* no Album is in use
NoAlbum == album = <<>>

(***************************************************************************)
(* AmazonMusic.__init__                                                    *)
(***************************************************************************)
\* the state before __init__ runs, with the cookie file among files
Constructed(files) ==
    /\ impl \in {"package", "legacy"}
    /\ pc = "start"
    /\ credentials \in CredentialArgs
    /\ r = NoResponse
    /\ c = Value("NoneType", <<>>)
    /\ cookies = None
    /\ net = <<>>
    /\ err = NoError
    /\ session = NoSession
    /\ first = NoResponse
    /\ file \in files
    /\ run = 1
    /\ api = <<>>
    /\ NoRead
    /\ NoTrack
    /\ NoView
    /\ NoScan
    /\ NoAlbum

InitBoot == Constructed(BootFiles)

\* the file at the cookie path is not in the format of the jar's class:
\* load() raises
LoadFail ==
    /\ pc = "start"
    /\ ~LoadOK(impl, file)
    /\ err' = Raise("LoadError", <<>>)
    /\ pc' = "raised"
    /\ UNCHANGED <<impl, credentials, r, c, cookies, net, session, first>>
    /\ UNCHANGED file
    /\ UNCHANGED <<run, api>>
    /\ UNCHANGED notBoot

\* the cookie jar is loaded, the target is the marker cookie or the default
\* URL, and the homepage is fetched
BootGet ==
    /\ pc = "start"
    /\ LoadOK(impl, file)
    /\ \E resp \in GetResponses :
        /\ r' = resp
        /\ first' = resp
        /\ net' = net \o << Get(IF Loaded(file) = None THEN AMAZON_MUSIC
                                 ELSE Loaded(file)),
                            Save, Chmod >>
    /\ cookies' = Loaded(file)
    /\ file' = Chmodded(Saved(file, Loaded(file)))
    /\ c' = credentials
    /\ pc' = "loop"
    /\ UNCHANGED <<impl, credentials, err, session>>
    /\ UNCHANGED <<run, api>>
    /\ UNCHANGED notBoot

\* an _authenticate that posts the credentials before it looks at them
AuthenticateInvalid_late ==
    /\ pc = "loop"
    /\ SignInRedirect(r)
    /\ ~ValidCredentials(Resolve(c))
    /\ c' = Resolve(c)
    /\ net' = (IF c.kind = "function" THEN Append(net, Provider) ELSE net)
               \o << Post(HiddenFields(r)) >>
    /\ err' = Raise("TypeError", <<>>)
    /\ pc' = "raised"
    /\ UNCHANGED <<impl, credentials, r, cookies, session, first>>
    /\ UNCHANGED file
    /\ UNCHANGED <<run, api>>
    /\ UNCHANGED notBoot

\* the credential checks that open _authenticate
AuthenticateInvalid ==
    /\ pc = "loop"
    /\ SignInRedirect(r)
    /\ ~ValidCredentials(Resolve(c))
    /\ c' = Resolve(c)
    /\ net' = IF c.kind = "function" THEN Append(net, Provider) ELSE net
    /\ err' = Raise("TypeError", <<>>)
    /\ pc' = "raised"
    /\ UNCHANGED <<impl, credentials, r, cookies, session, first>>
    /\ UNCHANGED file
    /\ UNCHANGED <<run, api>>
    /\ UNCHANGED notBoot

\* an _authenticate without the captcha test
AuthenticatePackage_nocaptcha ==
    /\ pc = "loop"
    /\ impl = "package"
    /\ SignInRedirect(r)
    /\ ValidCredentials(Resolve(c))
    /\ Exchanges(net) < MaxExchanges
    /\ c' = Resolve(c)
    /\ \E resp \in PostResponses :
        /\ net' = (IF c.kind = "function" THEN Append(net, Provider) ELSE net)
                   \o << Post(PackageQuery(r, Credentials(Resolve(c)))), Reply(resp), Save >>
        /\ r' = resp
    /\ UNCHANGED <<impl, pc, credentials, cookies, err, session, first>>
    /\ file' = Saved(file, cookies)
    /\ UNCHANGED <<run, api>>
    /\ UNCHANGED notBoot

\* an _authenticate that calls the provider and leaves the callable in place
AuthenticatePackage_recall ==
    /\ pc = "loop"
    /\ impl = "package"
    /\ SignInRedirect(r)
    /\ ValidCredentials(Resolve(c))
    /\ Exchanges(net) < MaxExchanges
    /\ c' = c
    /\ \E resp \in PostResponses :
        LET sent == (IF c.kind = "function" THEN Append(net, Provider) ELSE net)
                    \o << Post(PackageQuery(r, Credentials(Resolve(c)))), Reply(resp) >>
        IN  /\ IF resp.captcha
               THEN
                 /\ net' = sent
                 /\ err' = Raise("Exception: Unable to handle captcha", <<>>)
                 /\ pc' = "raised"
                 /\ r' = r
               ELSE
                 /\ net' = Append(sent, Save)
                 /\ r' = resp
                 /\ UNCHANGED <<err, pc>>
    /\ UNCHANGED <<impl, credentials, cookies, session, first>>
    /\ file' = IF pc' = "raised" THEN file ELSE Saved(file, cookies)
    /\ UNCHANGED <<run, api>>
    /\ UNCHANGED notBoot

\* _authenticate of the package: one POST, the captcha test, the save
AuthenticatePackage ==
    /\ pc = "loop"
    /\ impl = "package"
    /\ SignInRedirect(r)
    /\ ValidCredentials(Resolve(c))
    /\ Exchanges(net) < MaxExchanges
    /\ c' = Resolve(c)
    /\ \E resp \in PostResponses :
        LET sent == (IF c.kind = "function" THEN Append(net, Provider) ELSE net)
                    \o << Post(PackageQuery(r, Credentials(Resolve(c)))), Reply(resp) >>
        IN  /\ IF resp.captcha
               THEN
                 /\ net' = sent
                 /\ err' = Raise("Exception: Unable to handle captcha", <<>>)
                 /\ pc' = "raised"
                 /\ r' = r
               ELSE
                 /\ net' = Append(sent, Save)
                 /\ r' = resp
                 /\ UNCHANGED <<err, pc>>
    /\ UNCHANGED <<impl, credentials, cookies, session, first>>
    /\ file' = IF pc' = "raised" THEN file ELSE Saved(file, cookies)
    /\ UNCHANGED <<run, api>>
    /\ UNCHANGED notBoot

\* _authenticate of the legacy module: one POST, the second-factor exchange
\* when that POST was redirected to AMAZON_MFA, the save
AuthenticateLegacy ==
    /\ pc = "loop"
    /\ impl = "legacy"
    /\ SignInRedirect(r)
    /\ ValidCredentials(Resolve(c))
    /\ Exchanges(net) < MaxExchanges
    /\ c' = Resolve(c)
    /\ \E resp \in PostResponses :
        LET sent == (IF c.kind = "function" THEN Append(net, Provider) ELSE net)
                    \o << Post(LegacyQuery(r, Credentials(Resolve(c)))), Reply(resp) >>
        IN  /\ IF SecondFactorRedirect(resp)
               THEN
                 /\ Exchanges(net) + 2 <= MaxExchanges
                 /\ \E resp2 \in PostResponses :
                     /\ net' = sent \o << Prompt, Post(LegacyQuery(resp, OtpCode)),
                                         Reply(resp2), Save >>
                     /\ r' = resp2
               ELSE
                 /\ net' = Append(sent, Save)
                 /\ r' = resp
    /\ UNCHANGED <<impl, pc, credentials, cookies, err, session, first>>
    /\ file' = Saved(file, cookies)
    /\ UNCHANGED <<run, api>>
    /\ UNCHANGED notBoot

\* a bootstrap that fetches the force-sign-in path again instead of raising
ParseFail_retry ==
    /\ pc = "loop"
    /\ ~SignInRedirect(r)
    /\ LET cfg == AppConfigOf(r.body) IN
        \/ ~cfg.ok
        \/ ~cfg.found
        \/ ~HasRecognizedFlag(cfg.obj)
    /\ Exchanges(net) < MaxExchanges
    /\ \E resp \in GetResponses :
        /\ r' = resp
        /\ net' = Append(net, Get(AMAZON_MUSIC \o AMAZON_FORCE_SIGNIN))
    /\ UNCHANGED <<impl, pc, credentials, c, cookies, err, session, first>>
    /\ UNCHANGED file
    /\ UNCHANGED <<run, api>>
    /\ UNCHANGED notBoot

\* the configuration is missing or unusable: __init__ raises
ParseFail ==
    /\ pc = "loop"
    /\ ~SignInRedirect(r)
    /\ LET cfg == AppConfigOf(r.body) IN
        /\ \/ ~cfg.ok
           \/ ~cfg.found
           \/ ~HasRecognizedFlag(cfg.obj)
        /\ err' = IF ~cfg.ok THEN Raise("JSONDecodeError", <<>>)
                  ELSE IF ~cfg.found
                       THEN Raise("Exception: Unable to find appConfig", r.body)
                       ELSE Raise("KeyError", <<>>)
    /\ pc' = "raised"
    /\ UNCHANGED <<impl, credentials, r, c, cookies, net, session, first>>
    /\ UNCHANGED file
    /\ UNCHANGED <<run, api>>
    /\ UNCHANGED notBoot

\* a bootstrap that takes the session from an unrecognized configuration
ForceSignIn_store ==
    /\ pc = "loop"
    /\ ~SignInRedirect(r)
    /\ LET cfg == AppConfigOf(r.body) IN
        /\ cfg.ok /\ cfg.found /\ HasRecognizedFlag(cfg.obj)
        /\ IsRecognizedCustomer(cfg.obj) = 0
        /\ session' = SessionOf(cfg.obj)
    /\ c' = Value("NoneType", <<>>)
    /\ cookies' = session'.url
    /\ net' = Append(net, Save)
    /\ pc' = "done"
    /\ UNCHANGED <<impl, credentials, r, err, first>>
    /\ file' = Saved(file, session'.url)
    /\ UNCHANGED <<run, api>>
    /\ UNCHANGED notBoot

\* the customer is not recognized: one GET of the force-sign-in path
ForceSignIn ==
    /\ pc = "loop"
    /\ ~SignInRedirect(r)
    /\ LET cfg == AppConfigOf(r.body) IN
        /\ cfg.ok /\ cfg.found /\ HasRecognizedFlag(cfg.obj)
        /\ IsRecognizedCustomer(cfg.obj) = 0
    /\ Exchanges(net) < MaxExchanges
    /\ \E resp \in GetResponses :
        /\ r' = resp
        /\ net' = Append(net, Get(AMAZON_MUSIC \o AMAZON_FORCE_SIGNIN))
    /\ UNCHANGED <<impl, pc, credentials, c, cookies, err, session, first>>
    /\ UNCHANGED file
    /\ UNCHANGED <<run, api>>
    /\ UNCHANGED notBoot

\* a bootstrap that tests the sign-in redirect once instead of looping
StoreSession_once ==
    /\ pc = "loop"
    /\ ~SignInRedirect(first)
    /\ LET cfg == AppConfigOf(r.body) IN
        /\ cfg.ok /\ cfg.found /\ HasRecognizedFlag(cfg.obj)
        /\ IsRecognizedCustomer(cfg.obj) # 0
        /\ session' = SessionOf(cfg.obj)
    /\ c' = Value("NoneType", <<>>)
    /\ cookies' = session'.url
    /\ net' = Append(net, Save)
    /\ pc' = "done"
    /\ UNCHANGED <<impl, credentials, r, err, first>>
    /\ file' = Saved(file, session'.url)
    /\ UNCHANGED <<run, api>>
    /\ UNCHANGED notBoot

\* the customer is recognized: the session fields and the marker cookie
StoreSession ==
    /\ pc = "loop"
    /\ ~SignInRedirect(r)
    /\ LET cfg == AppConfigOf(r.body) IN
        /\ cfg.ok /\ cfg.found /\ HasRecognizedFlag(cfg.obj)
        /\ IsRecognizedCustomer(cfg.obj) # 0
        /\ session' = SessionOf(cfg.obj)
    /\ c' = Value("NoneType", <<>>)
    /\ cookies' = session'.url
    /\ net' = Append(net, Save)
    /\ pc' = "done"
    /\ UNCHANGED <<impl, credentials, r, err, first>>
    /\ file' = Saved(file, session'.url)
    /\ UNCHANGED <<run, api>>
    /\ UNCHANGED notBoot

NextBoot ==
    \/ LoadFail
    \/ BootGet
    \/ AuthenticateInvalid
    \/ AuthenticatePackage
    \/ AuthenticateLegacy
    \/ ParseFail
    \/ ForceSignIn
    \/ StoreSession

SpecBoot == InitBoot /\ [][NextBoot]_vars

BootTypeOK ==
    /\ impl \in {"package", "legacy"}
    /\ pc \in {"start", "loop", "done", "raised"}
    /\ Exchanges(net) <= MaxExchanges

(***************************************************************************)
(* Properties of the bootstrap                                             *)
(***************************************************************************)
\* the response shows no sign-in redirect and its configuration reports a
\* recognized customer
FastPath(resp) ==
    LET cfg == AppConfigOf(resp.body) IN
    /\ ~resp.signin
    /\ cfg.found /\ cfg.ok /\ HasRecognizedFlag(cfg.obj)
    /\ IsRecognizedCustomer(cfg.obj) # 0

\* C1: when the answer to the initial homepage GET has no 302 to the sign-in
\* path in its history and its configuration reports a recognized customer,
\* the bootstrap issues no login POST and never calls the credential
\* provider, whatever the cookie jar and the credentials argument are.
C1_FastPathNoLogin ==
    (pc # "start" /\ FastPath(first)) =>
        /\ Count(net, {"POST", "provider", "prompt"}) = 0
        /\ pc = "done" => net = << Get(net[1].url), Save, Chmod, Save >>

\* C1 witness: a finished bootstrap on the fast path that was handed a
\* provider function and a jar holding a marker cookie
C1_Witness ==
    /\ pc = "done" /\ FastPath(first)
    /\ credentials.kind = "function"
    /\ net[1].url = STORED_URL

\* a POST that carries the credentials (not the one-time code)
IsCredentialsPost(e) ==
    e.op = "POST" /\ "password" \in DOMAIN e.data /\ "otpCode" \notin DOMAIN e.data

\* C9: when the answer to the credentials POST was redirected to the
\* second-factor path, the operator is prompted and a second POST carrying
\* the one-time code and the hidden fields of the second-factor form is sent
\* before the sign-in step returns (saving the jar); with no such redirect
\* there is neither a prompt nor a second POST.
C9_SecondFactorStep ==
    \A i \in 1..Len(net) :
        IsCredentialsPost(net[i]) =>
            /\ Len(net) > i /\ net[i + 1].op = "reply"
            /\ IF net[i + 1].url = AMAZON_MFA
               THEN /\ Len(net) >= i + 5
                    /\ net[i + 2] = Prompt
                    /\ net[i + 3].op = "POST"
                    /\ "otpCode" \in DOMAIN net[i + 3].data
                    /\ net[i + 1].form \subseteq DOMAIN net[i + 3].data
                    /\ net[i + 4].op = "reply"
                    /\ net[i + 5] = Save
               ELSE Len(net) > i + 1 => net[i + 2].op \notin {"prompt", "POST"}

\* C10: when the response left by the sign-in loop has no line with the
\* configuration marker, the bootstrap raises the error that carries the
\* response body, sends nothing more, and a bootstrap that has raised takes
\* no further step.
C10_NoConfigIsFatal ==
    [][ /\ pc # "raised"
        /\ (pc = "loop" /\ ~SignInRedirect(r) /\ ~AppConfigOf(r.body).found) =>
              /\ pc' = "raised"
              /\ err'.type = "Exception: Unable to find appConfig"
              /\ err'.body = r.body
              /\ net' = net ]_vars

\* C10 witness: the error raised on the answer to a login POST
C10_Witness ==
    /\ pc = "raised"
    /\ err = Raise("Exception: Unable to find appConfig", BodyNoMarker)
    /\ Count(net, {"POST"}) >= 1

\* the configuration of the response is parsed and its top level holds
\* isRecognizedCustomer with the given member
Reports(resp, member) ==
    LET cfg == AppConfigOf(resp.body) IN
    /\ cfg.found /\ cfg.ok
    /\ Recognized(cfg.obj, 1, 0, None) = member

\* C11: whenever the response left by the sign-in loop has a configuration
\* that reports isRecognizedCustomer = 0 (and the exchange bound is not
\* reached), the next step of the bootstrap sends exactly one GET of the
\* force-sign-in path and nothing else, keeps no configuration (the session
\* stays unset) and goes back to the sign-in-redirect check with the answer
\* to that GET; and a session is only ever stored from a configuration that
\* reports a recognized customer.
C11_ForceSignInLoop ==
    [][ /\ (/\ pc = "loop" /\ ~SignInRedirect(r) /\ Reports(r, "k0")
            /\ Exchanges(net) < MaxExchanges) =>
              /\ net' = Append(net, Get(AMAZON_MUSIC \o AMAZON_FORCE_SIGNIN))
              /\ pc' = "loop"
              /\ r' \in GetResponses
              /\ session' = NoSession
        /\ session' # session =>
              /\ Reports(r, "k1")
              /\ session'.config = AppConfigOf(r.body).obj ]_vars

\* C11 witness: a bootstrap that was sent to the force-sign-in path, had to
\* sign in on the answer, and finished
C11_Witness ==
    /\ pc = "done"
    /\ Len(net) >= 5
    /\ net[4] = Get(AMAZON_MUSIC \o AMAZON_FORCE_SIGNIN)
    /\ Count(net, {"POST"}) = 1

\* the value is a two-element sequence, whatever its type
IsPair(cr) == cr.kind \in {"list", "tuple"} /\ Len(cr.val) = 2

\* C12: when the response asks for sign-in and the credentials (the literal
\* value, or what the provider returns) are not a two-element pair, the
\* next step of the bootstrap raises and has sent no POST.
C12_InvalidCredentialsFatal ==
    [][ (pc = "loop" /\ SignInRedirect(r) /\ ~IsPair(Resolve(c))) =>
            /\ pc' = "raised"
            /\ err' # NoError
            /\ Count(net', {"POST"}) = Count(net, {"POST"})
            /\ Count(net', {"GET", "POST"}) = Count(net, {"GET", "POST"}) ]_vars

\* C12 witness: a provider was called, returned a one-element list, and the
\* bootstrap raised without a POST
C12_Witness ==
    /\ pc = "raised"
    /\ credentials = Function("list", <<"identifier">>)
    /\ net # <<>>
    /\ net[Len(net)] = Provider
    /\ Count(net, {"POST"}) = 0

\* C13: in the package client an answer to the login POST that holds a
\* captcha is the last event of the bootstrap: the sign-in step has raised
\* the captcha error, nothing is sent after it, and the bootstrap is not
\* done.
C13_CaptchaIsFatal ==
    impl = "package" =>
        \A i \in 1..Len(net) :
            (net[i].op = "reply" /\ net[i].data # <<>>) =>
                /\ i = Len(net)
                /\ pc = "raised"
                /\ err.type = "Exception: Unable to handle captcha"
                /\ session = NoSession

\* C13 witness: the captcha came on the second login POST
C13_Witness ==
    /\ impl = "package"
    /\ pc = "raised"
    /\ err.type = "Exception: Unable to handle captcha"
    /\ Count(net, {"POST"}) = 2


\* C24: every POST that carries the credentials goes to the action URL of
\* the login form, carries the identifier and the secret as they were
\* supplied under "email" and "password", and carries the hidden inputs of
\* the form with their values.
C24_LoginPost ==
    \A i \in 1..Len(net) :
        IsCredentialsPost(net[i]) =>
            /\ net[i].url = "form.action"
            /\ net[i].data["email"] = Resolve(credentials).val[1]
            /\ net[i].data["password"] = Resolve(credentials).val[2]
            /\ "appActionToken" \in DOMAIN net[i].data
            /\ \A k \in DOMAIN net[i].data \ {"email", "password"} :
                  net[i].data[k] = "hidden value"

\* C25: between two network exchanges of a bootstrap the jar is saved.
C25_SavedBetweenExchanges ==
    \A i, j \in 1..Len(net) :
        (i < j /\ net[i].op \in {"GET", "POST"} /\ net[j].op \in {"GET", "POST"}) =>
            \E k \in (i + 1)..(j - 1) : net[k].op = "save"

\* the response shows no sign-in redirect and its configuration reports an
\* unrecognized customer
Unrecognized(resp) ==
    LET cfg == AppConfigOf(resp.body) IN
    /\ ~resp.signin
    /\ cfg.found /\ cfg.ok /\ HasRecognizedFlag(cfg.obj)
    /\ IsRecognizedCustomer(cfg.obj) = 0

\* C26: a bootstrap returns only from a response without sign-in redirect
\* whose configuration reports a recognized customer, and then every session
\* field is from that configuration; from a response with a sign-in redirect
\* or an unrecognized customer no step returns.
C26_Postcondition ==
    [][ /\ pc' = "done" =>
              /\ FastPath(r')
              /\ session' = SessionOf(AppConfigOf(r'.body).obj)
        /\ (pc = "loop" /\ (SignInRedirect(r) \/ Unrecognized(r))) =>
              /\ pc' # "done"
              /\ session' = NoSession ]_vars

\* C26 witness: the bootstrap returned after a force-sign-in GET and a login
C26_Witness ==
    /\ pc = "done"
    /\ Count(net, {"POST"}) = 1
    /\ net[Len(net) - 4] = Get(AMAZON_MUSIC \o AMAZON_FORCE_SIGNIN)
    /\ session.url = "https://music.amazon.de"

\* C27: a bootstrap calls the credential provider at most once; every login
\* POST after the call carries what the provider returned; and a client
\* whose bootstrap has returned holds no credentials.
C27_ProviderOnce ==
    /\ Count(net, {"provider"}) <= 1
    /\ \A i \in 1..Len(net) :
          (IsCredentialsPost(net[i]) /\ credentials.kind = "function") =>
              /\ Count(SubSeq(net, 1, i), {"provider"}) = 1
              /\ net[i].data["password"] = credentials.retval[2]
              /\ pc # "done" => c = Value(credentials.retkind, credentials.retval)
    /\ pc = "done" => c = Value("NoneType", <<>>)

\* C27 witness: two login POSTs of a client that was handed a provider
C27_Witness ==
    /\ credentials.kind = "function"
    /\ Count(net, {"POST"}) = 2
    /\ Count(net, {"provider"}) = 1

(***************************************************************************)
(* AmazonMusic.call, and the client over several processes that share the  *)
(* cookie file.                                                            *)
(***************************************************************************)
\* most processes that run the client one after the other
MaxRuns == 2

USER_AGENT == "Mozilla/5.0 (X11; Ubuntu; Linux x86_64; rv:57.0) Gecko/20100101 Firefox/57.0"

Endpoints == {"cirrus/", "muse/legacy/lookup"}
Targets == {None, "com.amazon.musicensembleservice.MusicEnsembleService.lookup"}

\* the query sent to an endpoint
QueryOf(endpoint) ==
    IF endpoint = "cirrus/" THEN [Operation |-> "searchLibrary"] ELSE [asins |-> "B01"]

\* the arguments call is invoked with: the library calls cirrus without a
\* target and every other endpoint with one
CallArgs ==
    { args \in { <<endpoint, target, QueryOf(endpoint)>> :
                   endpoint \in Endpoints, target \in Targets } :
        (args[1] = "cirrus/") <=> (args[2] = None) }

\* what session.post does: a transport error, or a response whose body is
\* JSON or is not
Transports == {"ConnectionError", "json", "not json"}

\* json.dumps(query)
JsonDumps(query) == [encoding |-> "json", payload |-> query]

\* data=query: requests sends a dict as form data
FormData(query) == [encoding |-> "form", payload |-> query]

\* query_headers
QueryHeaders(target) ==
    LET common == ("User-Agent" :> USER_AGENT)
                  @@ ("csrf-token" :> session.csrfToken)
                  @@ ("csrf-rnd" :> session.csrfRnd)
                  @@ ("csrf-ts" :> session.csrfTs)
                  @@ ("X-Requested-With" :> "XMLHttpRequest")
    IN  IF target = None THEN common
        ELSE common @@ ("X-Amz-Target" :> target)
                    @@ ("Content-Type" :> "application/json")
                    @@ ("Content-Encoding" :> "amz-1.0")

\* a URL without the region
ApiUrl_noregion(endpoint) == session.url \o "/api/" \o endpoint

\* '{}/{}/api/{}'.format(self.url, self.region, endpoint)
ApiUrl(endpoint) == session.url \o "/" \o session.region \o "/api/" \o endpoint

\* events of api
Invoke(endpoint, target, query) ==
    [op |-> "call", url |-> endpoint, data |-> query,
     form |-> IF target = None THEN {} ELSE {target}, headers |-> NoHeaders]
ApiPost(endpoint, target, query) ==
    [op |-> "POST", url |-> ApiUrl(endpoint),
     data |-> IF target = None THEN FormData(query) ELSE JsonDumps(query),
     form |-> {}, headers |-> QueryHeaders(target)]
Response(transport) == Event("response", "", <<transport>>, {})
Return == Event("return", "", <<>>, {})
Raises(exc) == Event("raise", "", <<exc>>, {})

\* a call that saves the jar only when the body was JSON
SavesAfter_json(transport) == transport = "json"

\* self.session.cookies.save() follows session.post whenever that returned
SavesAfter(transport) == transport # "ConnectionError"

\* the events of one invocation
Trace(args, transport) ==
    LET sent == << Invoke(args[1], args[2], args[3]),
                   ApiPost(args[1], args[2], args[3]) >>
    IN  IF transport = "ConnectionError"
        THEN Append(sent, Raises("ConnectionError"))
        ELSE sent \o << Response(transport) >>
             \o (IF SavesAfter(transport) THEN << Save >> ELSE << >>)
             \o << IF transport = "json" THEN Return ELSE Raises("ValueError") >>

\* a call that takes a new CSRF token from the response
Call_refresh ==
    /\ pc = "done"
    /\ \E args \in CallArgs, transport \in Transports :
        /\ api' = Trace(args, transport)
        /\ file' = IF transport # "ConnectionError" /\ SavesAfter(transport)
                   THEN Saved(file, cookies) ELSE file
        /\ session' = IF transport = "json"
                      THEN [session EXCEPT !.csrfToken = Lookup(session.config, "refreshed")]
                      ELSE session
    /\ UNCHANGED <<impl, pc, credentials, r, c, cookies, net, err, first, run>>
    /\ UNCHANGED notBoot

\* call(endpoint, target, query)
Call ==
    /\ pc = "done"
    /\ \E args \in CallArgs, transport \in Transports :
        /\ api' = Trace(args, transport)
        /\ file' = IF transport # "ConnectionError" /\ SavesAfter(transport)
                   THEN Saved(file, cookies) ELSE file
    /\ UNCHANGED <<impl, pc, credentials, r, c, cookies, net, err, session, first, run>>
    /\ UNCHANGED notBoot

\* the process ends after a bootstrap that succeeded, and a later process
\* constructs AmazonMusic with the same cookie file
Restart ==
    /\ pc = "done"
    /\ run < MaxRuns
    /\ run' = run + 1
    /\ pc' = "start"
    /\ r' = NoResponse
    /\ c' = Value("NoneType", <<>>)
    /\ cookies' = None
    /\ net' = <<>>
    /\ err' = NoError
    /\ session' = NoSession
    /\ first' = NoResponse
    /\ api' = <<>>
    /\ UNCHANGED <<impl, credentials, file>>
    /\ UNCHANGED notBoot

\* the first process finds no cookie file, or one without marker cookie that
\* others may read; what later processes find is what the earlier ones left
InitLife ==
    /\ Constructed(LifeFiles)
    /\ credentials \in {Function("list", PAIR), Value("NoneType", <<>>)}

NextLife == NextBoot \/ Call \/ Restart

SpecLife == InitLife /\ [][NextLife]_vars

(***************************************************************************)
(* Properties of call and of the cookie file                               *)
(***************************************************************************)
\* C14: an invocation of call sends exactly one POST, to
\* {url}/{region}/api/{endpoint} of the session, with the User-Agent and the
\* three CSRF headers of the session; with a target the POST also has the
\* target, JSON content-type and amz-1.0 content-encoding headers and the
\* query as JSON text; without a target it has none of these headers and the
\* query as form data.  After a transport error the invocation raises and
\* has sent nothing more.
C14_CallRequest ==
    api # <<>> =>
        LET invoked == api[1]
            post == api[2]
            typed == {"X-Amz-Target", "Content-Type", "Content-Encoding"}
        IN  /\ invoked.op = "call" /\ post.op = "POST"
            /\ Count(api, {"POST", "GET"}) = 1
            /\ post.url = session.url \o "/" \o session.region \o "/api/" \o invoked.url
            /\ {"User-Agent", "csrf-token", "csrf-rnd", "csrf-ts"} \subseteq DOMAIN post.headers
            /\ post.headers["User-Agent"] = USER_AGENT
            /\ post.headers["csrf-token"] = session.csrfToken
            /\ post.headers["csrf-rnd"] = session.csrfRnd
            /\ post.headers["csrf-ts"] = session.csrfTs
            /\ IF invoked.form # {}
               THEN /\ typed \subseteq DOMAIN post.headers
                    /\ post.headers["X-Amz-Target"] \in invoked.form
                    /\ post.headers["Content-Type"] = "application/json"
                    /\ post.headers["Content-Encoding"] = "amz-1.0"
                    /\ post.data = [encoding |-> "json", payload |-> invoked.data]
               ELSE /\ typed \cap DOMAIN post.headers = {}
                    /\ post.data = [encoding |-> "form", payload |-> invoked.data]
            /\ api[3].op = "raise" => Len(api) = 3 /\ api[3].data = <<"ConnectionError">>

\* C14 witness: a typed call to the muse endpoint that met a transport error
C14_Witness ==
    /\ Len(api) = 3
    /\ api[1].url = "muse/legacy/lookup" /\ api[1].form # {}
    /\ api[3] = Raises("ConnectionError")
    /\ session.region = "IN"

\* C15: in an invocation of call whose POST got a response, the jar is saved
\* right after the response and before the invocation returns or raises,
\* also when the body is not JSON; the cookie file then holds the jar.
C15_SavedAfterCall ==
    \A i \in 1..Len(api) :
        api[i].op = "response" =>
            /\ Len(api) = i + 2
            /\ api[i + 1].op = "save"
            /\ api[i + 2].op \in {"return", "raise"}
            /\ api[i].data # <<"json">> => api[i + 2].op = "raise"
            /\ file.exists /\ file.marker = cookies

\* C15 witness: the response was not JSON
C15_Witness ==
    /\ Len(api) = 5
    /\ api[3] = Response("not json")
    /\ api[5] = Raises("ValueError")

\* C16: when a bootstrap has succeeded the cookie file holds the marker
\* cookie with the base URL of the session; a bootstrap that has loaded the
\* file it finds sends its first GET to the URL of its marker cookie, and to
\* the default
\* entry URL when there is no file or the file has no marker cookie.
C16_MarkerRoundTrip ==
    [][ /\ pc' = "done" =>
              /\ file'.exists
              /\ file'.marker = session'.url
              /\ session'.url # None
        /\ (pc = "start" /\ pc' # "start" /\ LoadOK(impl, file)) =>
              /\ Len(net') >= 1
              /\ net'[1].op = "GET"
              /\ net'[1].url = IF file.exists /\ file.marker # None
                               THEN file.marker ELSE AMAZON_MUSIC
              /\ Count(net, {"GET", "POST"}) = 0 ]_vars

\* C16 witness: the second process fetched the URL the first one stored
C16_Witness ==
    /\ run = 2
    /\ Len(net) >= 1
    /\ net[1] = Get("https://music.amazon.de")

\* C17: once the bootstrap has returned, no step of the same process changes
\* a session field.
C17_SessionImmutable ==
    [][ (pc = "done" /\ run' = run) =>
            /\ session'.deviceId = session.deviceId
            /\ session'.csrfToken = session.csrfToken
            /\ session'.csrfTs = session.csrfTs
            /\ session'.csrfRnd = session.csrfRnd
            /\ session'.customerId = session.customerId
            /\ session'.deviceType = session.deviceType
            /\ session'.territory = session.territory
            /\ session'.locale = session.locale
            /\ session'.region = session.region
            /\ session'.url = session.url ]_vars

\* C17 witness: a call that returned, on a session with an unmapped realm
C17_Witness ==
    /\ pc = "done"
    /\ Len(api) = 5 /\ api[5] = Return
    /\ session.region = "IN"
    /\ session.csrfToken = Lookup(session.config, "csrf_token")

\* C28: when the cookies argument names the path, the file a bootstrap has
\* left there is loaded by the bootstrap of the next process: the format it
\* was saved in is the format load() reads, and no LoadError is raised.
C28_JarRoundTrip ==
    (file.path = "cookies" /\ run > 1) =>
        /\ LoadOK(impl, file)
        /\ err.type # "LoadError"

\* C19: from the first save of a bootstrap on, through every later save of
\* the bootstrap and of call and into later processes, the cookie file is
\* there with permissions 0600.
C19_OwnerOnly ==
    (net # <<>> \/ run > 1) => file.exists /\ file.mode = OWNER_ONLY

\* C19 witness: a bootstrap that found no marker cookie has signed in, and a
\* call has saved the jar
C19_Witness ==
    /\ pc = "done"
    /\ net[1] = Get(AMAZON_MUSIC)
    /\ Count(net, {"POST"}) >= 1
    /\ Len(api) = 5 /\ api[4] = Save

\* a client whose bootstrap has returned
Booted ==
    /\ impl \in {"package", "legacy"}
    /\ pc = "done"
    /\ credentials = Value("NoneType", <<>>)
    /\ r = NoResponse
    /\ c = Value("NoneType", <<>>)
    /\ cookies = STORED_URL
    /\ net = <<>>
    /\ err = NoError
    /\ session = SessionOf(AppConfigOf(BodyRecognized).obj)
    /\ first = NoResponse
    /\ file = FileOf("moz.dat", "Mozilla", STORED_URL, OWNER_ONLY)
    /\ run = 1
    /\ api = <<>>

(***************************************************************************)
(* Paginated reads: the generators behind AmazonMusic.albums, .artists,    *)
(* .tracks and Station.tracks.                                             *)
(*                                                                         *)
(* The service holds the collection as a sequence of pages.  An item is    *)
(* <<page, index>>.  The continuation token of page i is i, and the last   *)
(* page carries null.                                                      *)
(***************************************************************************)
\* most pages of a collection, most items of a page
MaxPages == 3
MaxPageLen == 3
MaxReads == 2

\* JSON null as a continuation token
NoToken == 0

\* the pages of a collection whose page i holds sizes[i] items
PagesOf(sizes) ==
    [i \in 1..Len(sizes) |->
        [items |-> [j \in 1..sizes[i] |-> <<i, j>>],
         token |-> IF i < Len(sizes) THEN i ELSE NoToken]]

Collections ==
    { PagesOf(sizes) : sizes \in UNION { [1..n -> 0..MaxPageLen] : n \in 1..MaxPages } }

EmptyPage == [items |-> <<>>, token |-> NoToken]

\* searchLibrary: the page that follows the token of the query, the first
\* page for a query without token
Page(tok) == IF tok + 1 \in 1..Len(pages) THEN pages[tok + 1] ELSE EmptyPage

\* getNextTracks: the page that follows the page token
NextTracks(tok) ==
    IF tok # NoToken /\ tok + 1 \in 1..Len(pages) THEN pages[tok + 1] ELSE EmptyPage

RECURSIVE Concat(_)
Concat(ps) == IF ps = <<>> THEN <<>> ELSE Head(ps).items \o Concat(Tail(ps))

\* a generator object before its first next()
\*   results  the list the loop pops from
\*   data     data['nextResultsToken'] of the page fetched last
\*   query    query['nextResultsToken']
\*   out      the items yielded so far
\*   calls    the calls sent: the token each carried and the number of items
\*            yielded before it
NewGenerator ==
    [pc |-> "created", results |-> <<>>, data |-> NoToken, query |-> NoToken,
     out |-> <<>>, calls |-> <<>>]

\* the query of a call without its continuation token: the operation and
\* the customerInfo members, which are session fields
Template(op) ==
    [operation |-> op, customerId |-> session.customerId,
     deviceId |-> session.deviceId, deviceType |-> session.deviceType]

\* a call as calls records it
Sent(op, tok, g) ==
    [token |-> tok, after |-> Len(g.out), template |-> Template(op)]

\* data = self.call('cirrus/', None, query)[...]; results.extend(...)
Fetch(g, tok) ==
    [g EXCEPT !.query = tok,
              !.data = Page(tok).token,
              !.results = @ \o Page(tok).items,
              !.calls = Append(@, Sent("searchLibrary", tok, g))]

\* while results: r = results.pop(0); yield ...
Yield(g) ==
    IF g.results = <<>>
    THEN [g EXCEPT !.pc = "finished"]
    ELSE [g EXCEPT !.pc = "suspended",
                   !.out = Append(@, Head(g.results)),
                   !.results = Tail(@)]

\* if not results and data['nextResultsToken']
WantsNextPage(g) == g.results = <<>> /\ g.data # NoToken

\* a reader that sends the query again as it was
LibraryResume_stale(g) ==
    IF g.pc = "created" THEN Fetch(g, NoToken)
    ELSE IF WantsNextPage(g) THEN Fetch(g, g.query)
    ELSE g

\* a reader that asks for the next page before it tests the list
LibraryResume_skip(g) ==
    LET h == IF g.pc = "created" THEN Fetch(g, NoToken) ELSE g
    IN  IF WantsNextPage(h) THEN Fetch(h, h.data) ELSE h

\* albums, artists: from the previous yield (or the start) to the loop test
LibraryResume(g) ==
    IF g.pc = "created" THEN Fetch(g, NoToken)
    ELSE IF WantsNextPage(g) THEN Fetch(g, g.data)
    ELSE g

\* tracks of the library: the first page only
TracksResume(g) == IF g.pc = "created" THEN Fetch(g, NoToken) ELSE g

\* a station that fetches while one track is still buffered
BufferEmpty_early(g) == Len(g.results) <= 1

\* a station that asks for more tracks only while it has a page token
BufferEmpty_token(g) == g.results = <<>> /\ pageToken # NoToken

\* if not tracks
BufferEmpty(g) == g.results = <<>>

\* Station.tracks: from the previous yield (or the start) to the loop test
StationResume(g) ==
    IF g.pc = "created" THEN [g EXCEPT !.results = pages[1].items]
    ELSE IF BufferEmpty(g)
         THEN [g EXCEPT !.data = NextTracks(pageToken).token,
                        !.results = @ \o NextTracks(pageToken).items,
                        !.calls = Append(@, Sent("getNextTracks", pageToken, g))]
         ELSE g

\* self._pageToken = data['nextPageToken']
StationToken(g) ==
    IF g.pc # "created" /\ BufferEmpty(g) THEN NextTracks(pageToken).token ELSE pageToken

InitRead ==
    /\ reader \in {"albums", "artists", "tracks", "station"}
    /\ pages \in Collections
    /\ gen = << NewGenerator >>
    /\ pageToken = IF reader = "station" THEN pages[1].token ELSE NoToken
    /\ Booted /\ impl = "package"
    /\ NoTrack
    /\ NoView
    /\ NoScan
    /\ NoAlbum

\* next() on a generator of AmazonMusic.albums or AmazonMusic.artists
NextLibrary ==
    /\ reader \in {"albums", "artists"}
    /\ \E i \in DOMAIN gen :
        /\ gen[i].pc # "finished"
        /\ gen' = [gen EXCEPT ![i] = Yield(LibraryResume(gen[i]))]
    /\ UNCHANGED <<reader, pages, pageToken>>
    /\ UNCHANGED notRead

\* next() on a generator of AmazonMusic.tracks
NextLibraryTrack ==
    /\ reader = "tracks"
    /\ \E i \in DOMAIN gen :
        /\ gen[i].pc # "finished"
        /\ gen' = [gen EXCEPT ![i] = Yield(TracksResume(gen[i]))]
    /\ UNCHANGED <<reader, pages, pageToken>>
    /\ UNCHANGED notRead

\* next() on a generator of Station.tracks
NextStationTrack ==
    /\ reader = "station"
    /\ \E i \in DOMAIN gen :
        /\ gen[i].pc # "finished"
        /\ gen' = [gen EXCEPT ![i] = Yield(StationResume(gen[i]))]
        /\ pageToken' = StationToken(gen[i])
    /\ UNCHANGED <<reader, pages>>
    /\ UNCHANGED notRead

NextRead ==
    \/ NextLibrary
    \/ NextLibraryTrack
    \/ NextStationTrack

SpecRead == InitRead /\ [][NextRead]_vars

\* the property is read again: a new generator over the same collection,
\* for a station over the same Station object
NewRead ==
    /\ Len(gen) < MaxReads
    /\ gen' = Append(gen, NewGenerator)
    /\ UNCHANGED <<reader, pages, pageToken>>
    /\ UNCHANGED notRead

NextReads == NextRead \/ NewRead

\* several reads of one collection, one after the other or interleaved
SpecReads == InitRead /\ [][NextReads]_vars

(***************************************************************************)
(* Properties of the paginated reads                                       *)
(***************************************************************************)
\* C2: a finished read of the library albums or artists has yielded exactly
\* the items of all pages, page after page and in the order within each page,
\* and has sent exactly one call per page.
C2_AllPagesRead ==
    \A i \in DOMAIN gen :
        (reader \in {"albums", "artists"} /\ gen[i].pc = "finished") =>
            /\ gen[i].out = Concat(pages)
            /\ Len(gen[i].calls) = Len(pages)

\* C3: for a Station whose first track list has 3 items and which has a page
\* token, a consumer that has taken up to three items (and asked for no more)
\* has caused no getNextTracks call, and one that has taken four items has
\* caused exactly one call, sent after the third item was yielded and before
\* the fourth, which is the first item of the fetched page.
C3_StationFetch ==
    \A i \in DOMAIN gen :
        (reader = "station" /\ Len(pages[1].items) = 3 /\ pages[1].token # NoToken) =>
            /\ (Len(gen[i].out) <= 3 /\ gen[i].pc # "finished") => gen[i].calls = <<>>
            /\ (Len(gen[i].out) = 4 /\ gen[i].pc = "suspended") =>
                  /\ Len(gen[i].calls) = 1
                  /\ gen[i].calls[1].after = 3
                  /\ gen[i].out[4] = <<2, 1>>

\* C3 witness: four items consumed from such a station
C3_Witness ==
    /\ reader = "station" /\ Len(pages[1].items) = 3 /\ pages[1].token # NoToken
    /\ Len(gen[1].out) = 4 /\ gen[1].pc = "suspended" /\ Len(gen[1].calls) = 1

\* C18: a finished read of the library tracks has yielded the tracks of every
\* page, and when the first page had tracks and a token it has sent the
\* follow-up call with that token.
C18_TracksFollowToken ==
    \A i \in DOMAIN gen :
        (reader = "tracks" /\ gen[i].pc = "finished") =>
            /\ (pages[1].items # <<>> /\ pages[1].token # NoToken) =>
                  /\ Len(gen[i].calls) >= 2
                  /\ gen[i].calls[2].token = pages[1].token
            /\ (\A k \in 1..(Len(pages) - 1) : pages[k].items # <<>>) =>
                  gen[i].out = Concat(pages)

\* the number of items of the first n pages
RECURSIVE ItemsBefore(_)
ItemsBefore(n) == IF n = 0 THEN 0 ELSE Len(pages[n].items) + ItemsBefore(n - 1)

\* C20: a read of the library albums or artists ends only when the page
\* fetched last is exhausted and carried no token; every call after the
\* first carries the token of the page before and is sent only when all
\* items of the pages before have been yielded, one call per page; and a
\* consumer that has stopped within a page has caused no call for the page
\* after it.
C20_EndsWithoutToken ==
    \A i \in DOMAIN gen :
        reader \in {"albums", "artists"} =>
            /\ gen[i].pc = "finished" =>
                  /\ gen[i].results = <<>>
                  /\ gen[i].data = NoToken
                  /\ Len(gen[i].calls) = Len(pages)
            /\ Len(gen[i].calls) <= Len(pages)
            /\ \A k \in 2..Len(gen[i].calls) :
                  /\ gen[i].calls[k].token = pages[k - 1].token
                  /\ gen[i].calls[k].token # NoToken
                  /\ gen[i].calls[k].after = ItemsBefore(k - 1)
            /\ \A k \in 1..Len(gen[i].calls) :
                  Len(gen[i].out) < ItemsBefore(k) => Len(gen[i].calls) = k

\* the same for collections whose pages before the last all have items
C20_NonEmptyPages ==
    (\A k \in 1..(Len(pages) - 1) : pages[k].items # <<>>) => C20_EndsWithoutToken

\* the continuation token that came with the page before call k of read i:
\* for a library read the token of the page the call before fetched, for a
\* station the page token of the document the station was made from and
\* then the token of the page the call before fetched
TokenBefore(i, k) ==
    IF reader = "station"
    THEN IF k = 1 THEN pages[1].token
         ELSE NextTracks(gen[i].calls[k - 1].token).token
    ELSE Page(gen[i].calls[k - 1].token).token

Obtained(i) ==
    IF reader = "station"
    THEN { NextTracks(gen[i].calls[k].token).token : k \in 1..Len(gen[i].calls) }
         \cup {pages[1].token}
    ELSE { Page(gen[i].calls[k].token).token : k \in 1..Len(gen[i].calls) }

\* C22: no call of one read carries a token that another read of the same
\* collection has obtained and the read itself has not.
C22_OwnToken ==
    \A i, j \in DOMAIN gen :
        \A k \in 1..Len(gen[i].calls) :
            (i # j /\ gen[i].calls[k].token \in Obtained(j) \ {NoToken}) =>
                gen[i].calls[k].token \in Obtained(i)

\* C22 for the library reads alone
C22_LibraryOwnToken ==
    reader # "station" => C22_OwnToken

\* C29: in a read of the library albums or artists a call that fetched a
\* page without items is the last call of the read, whether or not the page
\* carried a token, and the read has ended with the items of the pages
\* before.
C29_EmptyPageEnds ==
    \A i \in DOMAIN gen :
        \A k \in 1..Len(gen[i].calls) :
            (reader \in {"albums", "artists"}
                /\ Page(gen[i].calls[k].token).items = <<>>) =>
                /\ k = Len(gen[i].calls)
                /\ gen[i].pc = "finished"
                /\ Len(gen[i].out) = gen[i].calls[k].after

\* C29 witness: the first page is empty and carries a token, and the page
\* behind the token has items
C29_Witness ==
    /\ reader \in {"albums", "artists"}
    /\ Len(pages) >= 2
    /\ pages[1].items = <<>> /\ pages[1].token # NoToken
    /\ pages[2].items # <<>>
    /\ gen[1].pc = "finished"
    /\ Len(gen[1].calls) = 1

\* C30: a next() on a Station.tracks generator that finds the buffer empty
\* after a yield sends one getNextTracks call with the page token as it is,
\* present or not; one that finds tracks in the buffer sends none; and the
\* generator finishes only on an empty initial track list or an empty track
\* list in the answer.
C30_StationFetchesOnEmpty ==
    [][ \A i \in DOMAIN gen :
          (reader = "station" /\ i \in DOMAIN gen' /\ gen'[i] # gen[i]) =>
            /\ IF gen[i].pc = "suspended" /\ gen[i].results = <<>>
               THEN /\ Len(gen'[i].calls) = Len(gen[i].calls) + 1
                    /\ gen'[i].calls[Len(gen'[i].calls)].token = pageToken
                    /\ gen'[i].calls[Len(gen'[i].calls)].after = Len(gen[i].out)
               ELSE gen'[i].calls = gen[i].calls
            /\ gen'[i].pc = "finished" =>
                  \/ gen[i].pc = "created" /\ pages[1].items = <<>>
                  \/ /\ Len(gen'[i].calls) = Len(gen[i].calls) + 1
                     /\ NextTracks(pageToken).items = <<>> ]_vars

\* C30 witness: a call was sent although the station had no page token left
C30_Witness ==
    /\ reader = "station"
    /\ Len(gen[1].calls) = 2
    /\ gen[1].calls[2].token = NoToken
    /\ gen[1].pc = "finished"


(***************************************************************************)
(* Track.stream_url                                                        *)
(***************************************************************************)
\* most accesses of stream_url on one Track
MaxAccesses == 3

Absent == "absent"

\* what self._am.call can give for dmls/: a document, or an exception of the
\* transport or of r.json()
\*   statusCode  the value of the key, Absent without the key
\*   urlList     contentResponse.urlList, <<Absent>> without the key
StreamDocuments ==
    [raises : {FALSE},
     statusCode : {Absent, "MAX_CONCURRENCY_REACHED", "OK"},
     urlList : {<<Absent>>, <<>>, <<"url 1", "url 2">>, <<"url 2", "url 1">>, <<None>>}]

CallFailure == [raises |-> TRUE, statusCode |-> Absent, urlList |-> <<Absent>>]

StreamAnswers == StreamDocuments \cup {CallFailure}

Returned(u) == [raised |-> FALSE, exc |-> None, value |-> u]
Raised(exc) == [raised |-> TRUE, exc |-> exc, value |-> None]

\* the body of 'if self._url is None' after the call
StreamOutcome(doc) ==
    IF doc.raises THEN Raised("call")
    ELSE IF doc.statusCode = "MAX_CONCURRENCY_REACHED"
         THEN Raised("Exception: MAX_CONCURRENCY_REACHED")
    ELSE IF doc.urlList = <<Absent>> THEN Raised("KeyError")
    ELSE IF doc.urlList = <<>> THEN Raised("IndexError")
    ELSE Returned(doc.urlList[1])

\* a Track that asks the service only once
NeedsLookup_once(t) == t.url = None /\ t.calls = 0

\* a Track that asks the service on every access
NeedsLookup_always(t) == TRUE

\* if self._url is None
NeedsLookup(t) == t.url = None

InitTrack ==
    /\ track = [url |-> None, calls |-> 0]
    /\ accesses = <<>>
    /\ Booted
    /\ NoRead
    /\ NoView
    /\ NoScan
    /\ NoAlbum

\* one evaluation of track.stream_url
\*   called  whether the access sent a lookup
\*   doc     what the lookup gave
\*   result  what the access returned or raised
StreamUrl ==
    /\ Len(accesses) < MaxAccesses
    /\ IF NeedsLookup(track)
       THEN \E doc \in StreamAnswers :
              /\ track' = [url |-> IF StreamOutcome(doc).raised THEN track.url
                                   ELSE StreamOutcome(doc).value,
                           calls |-> track.calls + 1]
              /\ accesses' = Append(accesses,
                    [called |-> TRUE, doc |-> doc, result |-> StreamOutcome(doc)])
       ELSE /\ track' = track
            /\ accesses' = Append(accesses,
                    [called |-> FALSE, doc |-> CallFailure, result |-> Returned(track.url)])
    /\ UNCHANGED notTrack

NextTrack == StreamUrl

SpecTrack == InitTrack /\ [][NextTrack]_vars

(***************************************************************************)
(* Properties of Track.stream_url                                          *)
(***************************************************************************)
\* C4: an access whose lookup returned a document with statusCode
\* MAX_CONCURRENCY_REACHED raises, leaves _url unset, and the next access of
\* the same Track sends the lookup again.
C4_NoNegativeCaching ==
    \A k \in 1..Len(accesses) :
        (accesses[k].called /\ ~accesses[k].doc.raises
            /\ accesses[k].doc.statusCode = "MAX_CONCURRENCY_REACHED") =>
            /\ accesses[k].result = Raised("Exception: MAX_CONCURRENCY_REACHED")
            /\ k = Len(accesses) => track.url = None
            /\ k < Len(accesses) => accesses[k + 1].called

\* C4 witness: the sentinel was answered and the Track was accessed again
C4_Witness ==
    /\ Len(accesses) >= 2
    /\ accesses[1].doc.statusCode = "MAX_CONCURRENCY_REACHED"
    /\ accesses[1].doc.urlList = <<"url 1", "url 2">>
    /\ accesses[2].called

\* an access that returned a URL
Succeeded(a) == ~a.result.raised /\ a.result.value # None

\* C5: once an access has returned a URL, that URL is the first element of
\* the urlList the lookup gave, and every later access returns the same URL
\* without a further call.
C5_Memoized ==
    \A k \in 1..Len(accesses) :
        Succeeded(accesses[k]) =>
            /\ accesses[k].called => accesses[k].result.value = accesses[k].doc.urlList[1]
            /\ \A j \in (k + 1)..Len(accesses) :
                /\ ~accesses[j].called
                /\ accesses[j].result = accesses[k].result
            /\ track.url = accesses[k].result.value
            /\ track.calls = Cardinality({j \in 1..k : accesses[j].called})

\* C5 witness: a failed access, a successful one, and a later access
C5_Witness ==
    /\ Len(accesses) = 3
    /\ accesses[1].result.raised
    /\ Succeeded(accesses[2]) /\ accesses[2].result.value = "url 2"
    /\ accesses[3].result = Returned("url 2")


(***************************************************************************)
(* View models: Track.__init__ and Album.__init__.                         *)
(*                                                                         *)
(* A document is a function from the keys it holds to their values.  The   *)
(* keys the model varies are listed.  The other keys a constructor needs   *)
(* (objectId, artistName, album, image, artist, trackCount, ...) are       *)
(* present; the keys it falls back on when a listed key is missing (name,  *)
(* identifier, identifierType of a track, asin of a metadata object,       *)
(* albumName of a flat album) are absent.                                  *)
(***************************************************************************)
\* durations a document can carry under a duration key
Durations == {0, 240}

\* timestamps (milliseconds) a document can carry as originalReleaseDate
ReleaseDates == {0, 1500, 86400000}

\* dict.get(key, default)
GetOr(d, key, default) == IF key \in DOMAIN d THEN d[key] ELSE default

\* the union of two documents with disjoint keys
Merge(f, g) == [k \in DOMAIN f \cup DOMAIN g |-> IF k \in DOMAIN f THEN f[k] ELSE g[k]]

Documents(keys, values) == UNION { [K -> values] : K \in SUBSET keys }

DurationKeys == {"durationInSeconds", "duration", "durationSeconds"}

TrackDocuments ==
    { Merge(f, g) : f \in Documents({"title", "asin"}, {"text"}),
                    g \in Documents(DurationKeys, Durations) }

MetadataDocuments == Documents({"albumAsin", "albumName"}, {"nested text"})

AlbumDocuments ==
    { Merge(Merge(f, g), h) :
        f \in Documents({"numTracks", "asin", "title", "reviews"}, {"flat text"}),
        g \in Documents({"originalReleaseDate"}, ReleaseDates),
        h \in Documents({"metadata"}, MetadataDocuments) }

\* values of numeric or absent fields: None, or a number with its fraction
\* in thousandths (Python 3 true division keeps it)
Null == [none |-> TRUE, n |-> 0, frac |-> 0]
Num(n) == [none |-> FALSE, n |-> n, frac |-> 0]

KeyError(key) == [raised |-> TRUE, key |-> key]

\* -- Track ----------------------------------------------------------------
TrackObject(duration) == [raised |-> FALSE, key |-> None, duration |-> duration]

\* data.get('durationInSeconds', data.get('duration'))
DurationMain(d) ==
    IF "durationInSeconds" \in DOMAIN d THEN Num(d["durationInSeconds"])
    ELSE IF "duration" \in DOMAIN d THEN Num(d["duration"])
    ELSE Null

\* Track.__init__ of amazonmusic/amazonmusic.py and of the legacy module
TrackMain(d) ==
    IF "title" \notin DOMAIN d THEN KeyError("title")
    ELSE IF "asin" \notin DOMAIN d THEN KeyError("asin")
    ELSE TrackObject(DurationMain(d))

\* x is truthy for Python's 'or'
Truthy(d, key) == key \in DOMAIN d /\ d[key] # 0

\* Track.__init__ of amazonmusic/track.py
TrackModule(d) ==
    IF "asin" \notin DOMAIN d THEN KeyError("identifier")
    ELSE IF "title" \notin DOMAIN d THEN KeyError("title")
    ELSE IF Truthy(d, "durationInSeconds") THEN TrackObject(Num(d["durationInSeconds"]))
    ELSE IF Truthy(d, "duration") THEN TrackObject(Num(d["duration"]))
    ELSE IF "durationSeconds" \in DOMAIN d THEN TrackObject(Num(d["durationSeconds"]))
    ELSE KeyError("durationSeconds")

\* -- Album ----------------------------------------------------------------
AlbumObject(shape, id, name, rating, releaseDate) ==
    [raised |-> FALSE, key |-> None, shape |-> shape, id |-> id, name |-> name,
     rating |-> rating, releaseDate |-> releaseDate]

AlbumError(shape, key) ==
    [raised |-> TRUE, key |-> key, shape |-> shape, id |-> None, name |-> None,
     rating |-> Null, releaseDate |-> Null]

\* an Album that takes the nested shape only when numTracks is there too
HasMetadata_numTracks(d) == "metadata" \in DOMAIN d /\ "numTracks" \in DOMAIN d

\* if 'metadata' in data
HasMetadata(d) == "metadata" \in DOMAIN d

\* data['originalReleaseDate'] / 1000
Div1000(x) == [none |-> FALSE, n |-> x \div 1000, frac |-> x % 1000]

\* data['reviews']['average']
Average == Num(4)

\* Album.__init__ of amazonmusic/amazonmusic.py and of the legacy module
AlbumMain(d) ==
    IF HasMetadata(d)
    THEN LET m == d["metadata"] IN
         IF "numTracks" \notin DOMAIN d THEN AlbumError("nested", "numTracks")
         ELSE IF "albumAsin" \notin DOMAIN m THEN AlbumError("nested", "albumAsin")
         ELSE IF "albumName" \notin DOMAIN m THEN AlbumError("nested", "albumName")
         ELSE AlbumObject("nested", m["albumAsin"], m["albumName"], Null, Null)
    ELSE IF "asin" \notin DOMAIN d THEN AlbumError("flat", "asin")
         ELSE IF "title" \notin DOMAIN d THEN AlbumError("flat", "title")
         ELSE IF "reviews" \notin DOMAIN d THEN AlbumError("flat", "reviews")
         ELSE IF "originalReleaseDate" \notin DOMAIN d
              THEN AlbumError("flat", "originalReleaseDate")
         ELSE AlbumObject("flat", d["asin"], d["title"], Average,
                          Div1000(d["originalReleaseDate"]))

\* Album.__init__ of amazonmusic/album.py
AlbumModule(d) ==
    IF HasMetadata(d)
    THEN LET m == d["metadata"] IN
         IF "numTracks" \notin DOMAIN d THEN AlbumError("nested", "numTracks")
         ELSE IF "albumAsin" \notin DOMAIN m THEN AlbumError("nested", "asin")
         ELSE IF "albumName" \notin DOMAIN m THEN AlbumError("nested", "albumName")
         ELSE AlbumObject("nested", m["albumAsin"], m["albumName"], Null, Null)
    ELSE IF "asin" \notin DOMAIN d THEN AlbumError("flat", "asin")
         ELSE IF "title" \notin DOMAIN d THEN AlbumError("flat", "albumName")
         ELSE IF "originalReleaseDate" \notin DOMAIN d
              THEN AlbumError("flat", "originalReleaseDate")
         ELSE AlbumObject("flat", d["asin"], d["title"],
                          IF "reviews" \in DOMAIN d THEN Average ELSE Num(-1),
                          Div1000(d["originalReleaseDate"]))

TrackClasses == {"amazonmusic.amazonmusic.Track", "amazonmusic.track.Track", "legacy.Track"}
AlbumClasses == {"amazonmusic.amazonmusic.Album", "amazonmusic.album.Album", "legacy.Album"}

NotConstructed == [raised |-> FALSE, key |-> "not constructed"]

InitView ==
    /\ \/ cls \in TrackClasses /\ json \in TrackDocuments
       \/ cls \in AlbumClasses /\ json \in AlbumDocuments
    /\ view = NotConstructed
    /\ Booted
    /\ NoRead
    /\ NoTrack
    /\ NoScan
    /\ NoAlbum

\* Track(am, data)
NewTrack ==
    /\ cls \in TrackClasses
    /\ view = NotConstructed
    /\ view' = IF cls = "amazonmusic.track.Track" THEN TrackModule(json) ELSE TrackMain(json)
    /\ UNCHANGED <<cls, json>>
    /\ UNCHANGED notView

\* Album(am, data)
NewAlbum ==
    /\ cls \in AlbumClasses
    /\ view = NotConstructed
    /\ view' = IF cls = "amazonmusic.album.Album" THEN AlbumModule(json) ELSE AlbumMain(json)
    /\ UNCHANGED <<cls, json>>
    /\ UNCHANGED notView

NextView == NewTrack \/ NewAlbum

SpecView == InitView /\ [][NextView]_vars

(***************************************************************************)
(* Properties of the view models                                           *)
(***************************************************************************)
\* C6: constructing a Track from a document that has none of the keys
\* durationInSeconds, duration and durationSeconds (and has the other keys)
\* raises a KeyError that names a duration key; no Track without a duration
\* comes out.
C6_MissingDurationRaises ==
    (/\ cls \in TrackClasses
     /\ view # NotConstructed
     /\ DOMAIN json \cap DurationKeys = {}
     /\ {"title", "asin"} \subseteq DOMAIN json) =>
        view.raised /\ view.key \in DurationKeys

\* C7: Album.__init__ takes the nested shape exactly when the document has
\* the key metadata; an Album built from the nested shape has the id and
\* name of the metadata object and None as rating and releaseDate; an Album
\* built from the flat shape has the id and title of the document itself and
\* originalReleaseDate / 1000 as releaseDate.
C7_AlbumShape ==
    (cls \in AlbumClasses /\ view # NotConstructed) =>
        IF "metadata" \in DOMAIN json
        THEN /\ view.shape = "nested"
             /\ ~view.raised =>
                  /\ view.id = json["metadata"]["albumAsin"]
                  /\ view.name = json["metadata"]["albumName"]
                  /\ view.rating = Null
                  /\ view.releaseDate = Null
        ELSE /\ view.shape = "flat"
             /\ ~view.raised =>
                  /\ view.id = json["asin"]
                  /\ view.name = json["title"]
                  /\ ~view.releaseDate.none
                  /\ view.releaseDate.n * 1000 + view.releaseDate.frac
                       = json["originalReleaseDate"]
                  /\ view.releaseDate.frac \in 0..999

\* C7 witness: an Album built from a nested document that also has the flat
\* keys
C7_WitnessNested ==
    /\ cls \in AlbumClasses /\ view # NotConstructed /\ ~view.raised
    /\ {"metadata", "asin", "title", "originalReleaseDate", "reviews"} \subseteq DOMAIN json
    /\ view.name = "nested text"


(***************************************************************************)
(* Album.tracks: an Album made from a summary document fetches the full    *)
(* document when its tracks are first asked for.                           *)
(*                                                                         *)
(* album is a record:                                                      *)
(*   cls       the class of the Album                                      *)
(*   data      the document the Album was constructed from                 *)
(*   json      self.json                                                   *)
(*   view      the fields __init__ left                                    *)
(*   service   albumList[0] of the service's answer to a lookup of the     *)
(*             album                                                       *)
(*   calls     the ids get_album was called with, in order                 *)
(*   returned  what each access of tracks returned or raised, in order     *)
(***************************************************************************)
\* the values of the tracks member: lists of track documents, here their ids
TrackLists == { <<>>, <<1>>, <<1, 2>>, <<2, 1>> }

\* documents of the flat shape with the members __init__ reads; the title
\* and the reviews may be missing
FlatDocuments ==
    { Merge(Merge(f, g), h) :
        f \in [{"asin"} -> {"flat text"}],
        g \in Documents({"title", "reviews"}, {"flat text"}),
        h \in [{"originalReleaseDate"} -> {1500, 86400000}] }

\* the same with and without a tracks member
FullDocuments ==
    { Merge(d, t) : d \in FlatDocuments, t \in Documents({"tracks"}, TrackLists) }

\* an item of the library search: the nested shape, which has no tracks
NestedSummary ==
    [k \in {"numTracks", "metadata"} |->
        IF k = "numTracks" THEN "flat text"
        ELSE [m \in {"albumAsin", "albumName"} |-> "nested text"]]

\* Album.__init__ of the class
AlbumInit(k, d) == IF k = "amazonmusic.album.Album" THEN AlbumModule(d) ELSE AlbumMain(d)

\* self.json after __init__
JsonOf(d) == IF HasMetadata(d) THEN d["metadata"] ELSE d

\* what an access of tracks returns or raises
TracksOf(list) == [raised |-> FALSE, key |-> None, tracks |-> list]
TracksError(key) == [raised |-> TRUE, key |-> key, tracks |-> <<>>]

\* get_album: the Album of the client's module made from albumList[0]
GetAlbum(s) == AlbumMain(s)

\* an Album that takes every document for a summary
IsSummary_always(j) == TRUE

\* 'tracks' not in self.json
IsSummary(j) == "tracks" \notin DOMAIN j

\* [Track(self._am, track) for track in self.json['tracks']]
TrackList(j) ==
    IF "tracks" \in DOMAIN j THEN TracksOf(j["tracks"]) ELSE TracksError("tracks")

\* Album(am, data) has returned
AlbumOf(k, d, s) ==
    [cls |-> k, data |-> d, json |-> JsonOf(d), view |-> AlbumInit(k, d),
     service |-> s, calls |-> <<>>, returned |-> <<>>]

\* Album.tracks on an Album a: the lookup and the second __init__ when
\* self.json is a summary, then the list
Accessed(a) ==
    IF ~IsSummary(a.json)
    THEN [a EXCEPT !.returned = Append(@, TrackList(a.json))]
    ELSE LET fetched == GetAlbum(a.service)
             again == AlbumInit(a.cls, JsonOf(a.service))
         IN  IF fetched.raised
             THEN [a EXCEPT !.calls = Append(@, a.view.id),
                            !.returned = Append(@, TracksError(fetched.key))]
             ELSE [a EXCEPT !.calls = Append(@, a.view.id),
                            !.json = JsonOf(a.service),
                            !.view = again,
                            !.returned = Append(@, IF again.raised
                                                   THEN TracksError(again.key)
                                                   ELSE TrackList(JsonOf(a.service)))]

InitAlbum ==
    /\ \E k \in AlbumClasses, s \in FullDocuments, d \in {NestedSummary} \cup FullDocuments :
        /\ ~AlbumInit(k, d).raised
        /\ album = AlbumOf(k, d, s)
    /\ Booted
    /\ NoRead
    /\ NoTrack
    /\ NoView
    /\ NoScan

\* album.tracks
AlbumTracks ==
    /\ Len(album.returned) < MaxAccesses
    /\ album' = Accessed(album)
    /\ UNCHANGED notAlbum

NextAlbum == AlbumTracks

SpecAlbum == InitAlbum /\ [][NextAlbum]_vars

(***************************************************************************)
(* Properties of Album.tracks                                              *)
(***************************************************************************)
\* C23: an Album made from a document with tracks sends no lookup, and every
\* access returns those tracks.  An Album made from a document without
\* tracks sends one lookup, for its id, in its first access; when get_album
\* and __init__ accept the fetched document the Album then is as __init__
\* leaves it for that document; and when the fetched document has tracks, no later access
\* sends a lookup and every access returns the tracks of the fetched
\* document in their order.
C23_LazyTracks ==
    album # <<>> =>
        IF "tracks" \in DOMAIN JsonOf(album.data)
        THEN /\ album.calls = <<>>
             /\ \A n \in 1..Len(album.returned) :
                   album.returned[n] = TracksOf(album.data["tracks"])
        ELSE Len(album.returned) >= 1 =>
             /\ Len(album.calls) >= 1
             /\ album.calls[1] = AlbumInit(album.cls, album.data).id
             /\ Len(album.returned) = 1 => Len(album.calls) = 1
             /\ (~GetAlbum(album.service).raised /\ ~AlbumInit(album.cls, album.service).raised) =>
                   /\ album.json = album.service
                   /\ album.view = AlbumInit(album.cls, album.service)
                   /\ "tracks" \in DOMAIN album.service =>
                         /\ Len(album.calls) = 1
                         /\ \A n \in 1..Len(album.returned) :
                               album.returned[n] = TracksOf(album.service["tracks"])

\* C23 witness: three accesses of an Album made from an item of the library
\* search, whose full document has two tracks
C23_Witness ==
    /\ album # <<>>
    /\ album.data = NestedSummary
    /\ Len(album.returned) = 3
    /\ album.returned[3] = TracksOf(<<2, 1>>)
    /\ Len(album.calls) = 1
    /\ album.view.shape = "flat"

(***************************************************************************)
(* Configuration extraction on its own: the scan of one response body.     *)
(***************************************************************************)
MaxPrefix == 2
MaxLines == 2

\* what can stand in front of the object on a line
PrefixChars == {"x", "M", "{", ";"}

Prefixes == UNION { [1..n -> PrefixChars] : n \in 0..MaxPrefix }

\* JSON object literals
Objects ==
    { <<"{", "}">>, <<"{", "k0", "}">>, <<"{", "k1", "}">>,
      <<"{", "k1", "{", "}", "}">> }

\* what can stand behind the object on a line
Terminators == { <<>>, <<";">>, <<";", ";">> }

Lines ==
    { pre \o o \o t : pre \in Prefixes, o \in Objects \cup {<<>>}, t \in Terminators }

\* the lines around the one that is varied
OtherLines ==
    { <<"x">>, <<"M">>, <<"M", "{", "k0", "}", ";">>, <<"x", "M", "{", "}", ";">> }

\* the body of n lines whose line k is l and whose other lines are others
Body(n, k, l, others) == [i \in 1..n |-> IF i = k THEN l ELSE others[i]]

\* app_config = None, before the scan
NotScanned == [found |-> FALSE, ok |-> FALSE, obj |-> <<>>]

\* a bootstrap that has its final response in hand
Scanning ==
    /\ impl = "package"
    /\ pc = "start"
    /\ credentials = Value("NoneType", <<>>)
    /\ r = NoResponse
    /\ c = Value("NoneType", <<>>)
    /\ cookies = None
    /\ net = <<>>
    /\ err = NoError
    /\ session = NoSession
    /\ first = NoResponse
    /\ file = NoFile
    /\ run = 1
    /\ api = <<>>

InitConfig ==
    /\ \E n \in 1..MaxLines :
         \E k \in 1..n, l \in Lines, others \in [1..n -> OtherLines] :
            html = Body(n, k, l, others)
    /\ app_config = NotScanned
    /\ Scanning
    /\ NoRead
    /\ NoTrack
    /\ NoView
    /\ NoAlbum

\* for line in r.iter_lines(): if marker in line: app_config = ...; break
ScanBody ==
    /\ app_config = NotScanned
    /\ app_config' = AppConfigOf(html)
    /\ UNCHANGED html
    /\ UNCHANGED notConfig

NextConfig == ScanBody

SpecConfig == InitConfig /\ [][NextConfig]_vars

(***************************************************************************)
(* Properties of the configuration extraction                              *)
(***************************************************************************)
\* line is: characters other than "{" with the marker among them, then the
\* object o, then ";"
MarkerThenObject(line, o) ==
    /\ Len(line) > Len(o) + 1
    /\ line[Len(line)] = ";"
    /\ SubSeq(line, Len(line) - Len(o), Len(line) - 1) = o
    /\ \A i \in 1..(Len(line) - Len(o) - 1) : line[i] # "{"
    /\ \E i \in 1..(Len(line) - Len(o) - 1) : line[i] = "M"

WellFormed(line) == \E o \in Objects : MarkerThenObject(line, o)

Parsed(o) == [found |-> TRUE, ok |-> TRUE, obj |-> o]

====
